---- MODULE Spec2Model ----
(***************************************************************************)
(* Matterhorn: the soma (neuron body) of a spiking neural network.         *)
(*                                                                         *)
(* matterhorn/snn/soma.py     UOHSkeleton, RORSkeleton, IF, LIF, QIF, EIF, *)
(*                            Izhikevich                                   *)
(* matterhorn/snn/soma_cpp.py SomaCPP, LIF (fused multi-time-step driver)  *)
(*                                                                         *)
(* A soma object keeps a membrane potential u (Izhikevich also w) between  *)
(* forward calls.  The model follows one soma object from its              *)
(* construction through forward / reset / detach calls.                    *)
(*                                                                         *)
(* Numbers.  Python floats and tensor elements are modelled as exact       *)
(* rationals <<n, d>> with d > 0, in lowest terms.  Tensors are 1-d:       *)
(* a tensor value is a sequence of rationals, its shape is its length.     *)
(***************************************************************************)
EXTENDS Integers, Sequences, FiniteSets, TLC

(***************************************************************************)
(* Bounds of the model                                                     *)
(***************************************************************************)
\* forward steps taken from a resting state (counted again after reset())
MaxSteps == 2
\* forward calls of one caller-managed loop over a constant input
MaxLoopSteps == 4
\* forward steps on a soma constructed with an unusual configuration
MaxConfigSteps == 2
\* forward calls on a RORSkeleton object
MaxRORSteps == 2
\* largest tensor length (1-d shape) of an input
MaxLen == 3
\* largest number of time steps of one batched (multi-time-step) input
MaxT == 2

(***************************************************************************)
(* Numbers: a float is <<n, d>>.  d > 0: the rational n/d in lowest terms. *)
(* d = 0: the IEEE specials, <<1,0>> = +inf, <<-1,0>> = -inf, <<0,0>> = NaN *)
(***************************************************************************)
Abs(i) == IF i < 0 THEN -i ELSE i
Sgn(i) == IF i < 0 THEN -1 ELSE IF i = 0 THEN 0 ELSE 1

RECURSIVE Gcd(_, _)
Gcd(a, b) == IF b = 0 THEN a ELSE Gcd(b, a % b)

Norm(n, d) ==
    IF d = 0 THEN <<Sgn(n), 0>>
    ELSE LET g == Gcd(Abs(n), Abs(d))
             s == IF d < 0 THEN -1 ELSE 1
         IN  <<(s * n) \div g, (s * d) \div g>>

Q(n, d) == Norm(n, d)
Zero == <<0, 1>>
One == <<1, 1>>
NaN == <<0, 0>>
PInf == <<1, 0>>
NInf == <<-1, 0>>
IsNaN(p) == p = NaN
IsFin(p) == p[2] # 0
Lcm(a, b) == (a \div Gcd(a, b)) * b

RNeg(p) == <<-p[1], p[2]>>
RAdd(p, q) ==
    IF IsNaN(p) \/ IsNaN(q) THEN NaN
    ELSE IF ~IsFin(p) /\ ~IsFin(q) THEN (IF p = q THEN p ELSE NaN)
    ELSE IF ~IsFin(p) THEN p
    ELSE IF ~IsFin(q) THEN q
    ELSE LET l == Lcm(p[2], q[2])
         IN  Norm(p[1] * (l \div p[2]) + q[1] * (l \div q[2]), l)
RSub(p, q) == RAdd(p, RNeg(q))
RMul(p, q) ==
    IF IsNaN(p) \/ IsNaN(q) THEN NaN
    ELSE IF ~IsFin(p) \/ ~IsFin(q) THEN <<Sgn(p[1]) * Sgn(q[1]), 0>>
    ELSE LET a == Norm(p[1], q[2])
             b == Norm(q[1], p[2])
         IN  <<a[1] * b[1], a[2] * b[2]>>
\* IEEE division (tensor / number): x/0 = +-inf, 0/0 = NaN, x/inf = 0
RDiv(p, q) ==
    IF IsNaN(p) \/ IsNaN(q) THEN NaN
    ELSE IF ~IsFin(q) THEN (IF IsFin(p) THEN Zero ELSE NaN)
    ELSE IF q[1] = 0 THEN <<Sgn(p[1]), 0>>
    ELSE RMul(p, Norm(q[2], q[1]))
\* p >= q; every comparison with NaN is false
RGe(p, q) ==
    IF IsNaN(p) \/ IsNaN(q) THEN FALSE
    ELSE IF ~IsFin(p) THEN (p = PInf \/ q = NInf)
    ELSE IF ~IsFin(q) THEN q = NInf
    ELSE p[1] * q[2] >= q[1] * p[2]

\* floor of a finite rational
Floor(p) == IF p[1] >= 0 THEN p[1] \div p[2] ELSE -((-p[1] + p[2] - 1) \div p[2])

RECURSIVE Pow2(_)
Pow2(k) == IF k = 0 THEN 1 ELSE 2 * Pow2(k - 1)

(***************************************************************************)
(* Values held in self.u / self.w and passed to forward:                   *)
(*   kind "float"  : a Python float (the scalar placeholder), val = <<r>>  *)
(*   kind "tensor" : a 1-d torch.Tensor, val = its elements, hist = the    *)
(*                   forward steps whose inputs its autograd graph reaches *)
(*   any other kind: the operation raised, and kind names the exception   *)
(*                   (RuntimeError: the shapes do not broadcast)            *)
(***************************************************************************)
\* the element of a one-element set: Bind({e(v) : v \in {d}}) is e(d) with d
\* evaluated once
Bind(S) == CHOOSE r \in S : TRUE

Float(r) == [kind |-> "float", val |-> <<r>>, hist |-> {}]
Tensor(s, h) == [kind |-> "tensor", val |-> s, hist |-> h]
Raised(exc) == [kind |-> exc, val |-> <<>>, hist |-> {}]
\* an attribute that was never assigned
NoAttr == [kind |-> "none", val |-> <<>>, hist |-> {}]

IsTensor(v) == v.kind = "tensor"
IsValue(v) == v.kind \in {"float", "tensor"}
Shape(v) == Len(v.val)

\* torch broadcasting of two 1-d shapes; 0 when they do not broadcast
BroadcastLen(n, m) ==
    IF n = m THEN n ELSE IF n = 1 THEN m ELSE IF m = 1 THEN n ELSE 0

Arith(op, p, q) ==
    CASE op = "add" -> RAdd(p, q)
      [] op = "sub" -> RSub(p, q)
      [] op = "mul" -> RMul(p, q)
      [] op = "div" -> RDiv(p, q)

At(v, i) == IF Len(v.val) = 1 THEN v.val[1] ELSE v.val[i]

\* a op b, elementwise, on floats and tensors.  float op float is Python
\* arithmetic: a float, and division by zero raises.
EW0(op, a, b) ==
    IF ~IsValue(a) THEN a
    ELSE IF ~IsValue(b) THEN b
    ELSE IF a.kind = "float" /\ b.kind = "float"
         THEN IF op = "div" /\ b.val[1] = Zero
              THEN Raised("ZeroDivisionError")
              ELSE Float(Arith(op, a.val[1], b.val[1]))
    ELSE LET n == IF a.kind = "float" THEN Shape(b)
                  ELSE IF b.kind = "float" THEN Shape(a)
                  ELSE BroadcastLen(Shape(a), Shape(b))
         IN  IF n = 0 THEN Raised("RuntimeError")
             ELSE Tensor([i \in 1..n |-> Arith(op, At(a, i), At(b, i))],
                         a.hist \cup b.hist)

\* EW0 on the values of a and b (each evaluated once)
EW(op, a, b) == Bind({EW0(op, va, vb) : va \in {a}, vb \in {b}})

TAdd(a, b) == EW("add", a, b)
TSub(a, b) == EW("sub", a, b)
TMul(a, b) == EW("mul", a, b)
TDiv(a, b) == EW("div", a, b)

\* torch.Tensor.detach(): the same values, no autograd history
TorchDetach(v) == Tensor(v.val, {})

(***************************************************************************)
(* torch.exp.  e^q is irrational; the model keeps what the claims need of  *)
(* it: positive, monotone, exp(+inf) = +inf, exp(-inf) = 0, exp(NaN) = NaN,*)
(* and float32 overflow to +inf above q = 88.  Finite values are           *)
(* approximated by 2^floor(q) (0 below 2^-30).                             *)
(***************************************************************************)
RExp(q) ==
    IF IsNaN(q) THEN NaN
    ELSE IF q = PInf THEN PInf
    ELSE IF q = NInf THEN Zero
    ELSE IF Floor(q) > 88 THEN PInf
    ELSE IF Floor(q) >= 0 THEN <<Pow2(Floor(q)), 1>>
    ELSE IF Floor(q) < -30 THEN Zero
    ELSE <<1, Pow2(-Floor(q))>>

TExp(a) ==
    IF a.kind = "float" THEN Float(RExp(a.val[1]))
    ELSE IF a.kind = "tensor"
         THEN Tensor([i \in 1..Shape(a) |-> RExp(a.val[i])], a.hist)
    ELSE a

(***************************************************************************)
(* The soma object: its attributes.  NoNum / NoAttr: not (yet) assigned.   *)
(***************************************************************************)
NoNum == <<0, -1>>

NewObject(cls) ==
    [cls |-> cls, tau_m |-> NoNum, u_threshold |-> NoNum, u_rest |-> NoNum,
     a_0 |-> NoNum, u_c |-> NoNum, delta_t |-> NoNum, u_t |-> NoNum,
     a |-> NoNum, b |-> NoNum, u |-> NoAttr, w |-> NoAttr,
     multi_time_step |-> FALSE, spiking_function_prototype |-> -1]

\* what a call returns to its caller: the object as the call left it, and
\* the exception it raised ("" when it returned normally)
Returned(self) == [self |-> self, exc |-> ""]
Threw(self, exc) == [self |-> self, exc |-> exc]

(***************************************************************************)
(* functions.heaviside_rectangular (matterhorn/snn/functions.py): forward  *)
(* is the Heaviside step of its argument, 1 where d >= 0, else 0; the      *)
(* surrogate gradient keeps the output in the autograd graph of d.         *)
(***************************************************************************)
heaviside_forward(d) ==
    IF ~IsTensor(d) THEN (IF IsValue(d) THEN Raised("TypeError") ELSE d)
    ELSE Tensor([i \in 1..Shape(d) |-> IF RGe(d.val[i], Zero) THEN One ELSE Zero],
                d.hist)

\* the values a caller may pass as spiking_function
\*   "Function"       a torch.autograd.Function class (calling it gives an instance)
\*   "not_callable"   e.g. a number
\*   "callable_other" a callable whose result is no torch.autograd.Function
\*   "callable_raises" a callable that cannot be called without arguments
SpikingFunctions == {"Function", "not_callable", "callable_other", "callable_raises"}

(***************************************************************************)
(* class UOHSkeleton                                                       *)
(***************************************************************************)
\* mutant: reset to zero instead of the resting potential
reset_to_zero(self) == [self EXCEPT !.u = Float(Zero)]

UOHSkeleton_reset(self) == [self EXCEPT !.u = Float(self.u_rest)]

Izhikevich_reset(self) == [self EXCEPT !.u = Float(Zero), !.w = Float(Zero)]

\* self.reset(), by the class of self
reset(self) ==
    IF self.cls = "Izhikevich" THEN Izhikevich_reset(self)
    ELSE UOHSkeleton_reset(self)

\* mutant: detach() does nothing
detach_nothing(self) == self

UOHSkeleton_detach(self) ==
    IF IsTensor(self.u) THEN [self EXCEPT !.u = TorchDetach(self.u)] ELSE self

Izhikevich_detach(self) ==
    LET s1 == IF IsTensor(self.u) THEN [self EXCEPT !.u = TorchDetach(self.u)] ELSE self
    IN  IF IsTensor(s1.w) THEN [s1 EXCEPT !.w = TorchDetach(s1.w)] ELSE s1

detach(self) ==
    IF self.cls = "Izhikevich" THEN Izhikevich_detach(self)
    ELSE UOHSkeleton_detach(self)

\* mutant: only callable(spiking_function) is asserted
check_callable_only(sf) ==
    IF sf = "not_callable" THEN "AssertionError" ELSE ""

\* the assertion on spiking_function: "" when it passes, else the exception
check_spiking_function(sf) ==
    IF sf = "not_callable" THEN "AssertionError"
    ELSE IF sf = "callable_raises" THEN "TypeError"
    ELSE IF sf = "callable_other" THEN "AssertionError"
    ELSE ""

\* mutant: tau_m is not asserted
check_tau_m_absent(tau_m) == ""

\* the assertion on tau_m
check_tau_m(tau_m) == IF tau_m = Zero THEN "AssertionError" ELSE ""

UOHSkeleton_init(self, tau_m, u_threshold, u_rest, sf) ==
    IF check_spiking_function(sf) # "" THEN Threw(self, check_spiking_function(sf))
    ELSE IF check_tau_m(tau_m) # "" THEN Threw(self, check_tau_m(tau_m))
    ELSE Returned(reset([self EXCEPT !.tau_m = tau_m,
                                     !.u_threshold = u_threshold,
                                     !.u_rest = u_rest]))

\* mutant: the input is added without the factor 1/tau_m
calc_potential_plain_sum(self, h, x) == TAdd(h, x)

UOHSkeleton_calc_potential(self, h, x) ==
    TAdd(h, TMul(TDiv(Float(One), Float(self.tau_m)), x))

\* mutant: the potential is compared with the threshold, not their
\* difference with 0
calc_spike_by_comparison(self, u) ==
    IF ~IsTensor(u) THEN (IF IsValue(u) THEN Raised("TypeError") ELSE u)
    ELSE Tensor([i \in 1..Shape(u) |->
                    IF RGe(u.val[i], self.u_threshold) THEN One ELSE Zero], u.hist)

\* mutant: the threshold is not subtracted
calc_spike_no_threshold(self, u) == heaviside_forward(u)

UOHSkeleton_calc_spike(self, u) ==
    heaviside_forward(TSub(u, Float(self.u_threshold)))

\* h * (1. - o) + self.u_rest * o
HardReset(self, h, o) ==
    TAdd(TMul(h, TSub(Float(One), o)), TMul(Float(self.u_rest), o))

\* calc_history returns [h |-> the value returned (or what it raised),
\*                       w |-> self.w when it returned or raised]
UOHSkeleton_calc_history(self, u, o) ==
    [h |-> Raised("NotImplementedError"), w |-> self.w]

(***************************************************************************)
(* class IF, LIF, QIF, EIF, Izhikevich                                     *)
(***************************************************************************)
\* mutant: IF is given a membrane time constant of 2
IF_init_tau_two(self, u_threshold, u_rest, sf) ==
    UOHSkeleton_init(self, Q(2, 1), u_threshold, u_rest, sf)

\* mutant: IF is given a membrane time constant of -1
IF_init_tau_negative(self, u_threshold, u_rest, sf) ==
    UOHSkeleton_init(self, RNeg(One), u_threshold, u_rest, sf)

IF_init(self, u_threshold, u_rest, sf) ==
    UOHSkeleton_init(self, One, u_threshold, u_rest, sf)

IF_calc_history(self, u, o) ==
    [h |-> HardReset(self, u, o), w |-> self.w]

LIF_init(self, tau_m, u_threshold, u_rest, sf) ==
    UOHSkeleton_init(self, tau_m, u_threshold, u_rest, sf)

\* mutant: the leak term is left out (the IF rule)
LIF_calc_history_no_leak(self, u, o) ==
    [h |-> HardReset(self, u, o), w |-> self.w]

LIF_calc_history(self, u, o) ==
    LET inv == TDiv(Float(One), Float(self.tau_m))
        h == TAdd(TMul(TSub(Float(One), inv), u), TMul(inv, Float(self.u_rest)))
    IN  [h |-> HardReset(self, h, o), w |-> self.w]

QIF_init(self, tau_m, u_threshold, u_rest, u_c, a_0, sf) ==
    LET r == UOHSkeleton_init(self, tau_m, u_threshold, u_rest, sf)
    IN  IF r.exc # "" THEN r
        ELSE Returned([r.self EXCEPT !.a_0 = a_0, !.u_c = u_c])

\* mutant: the quadratic term is added, not subtracted
QIF_calc_history_added(self, u, o) ==
    LET k == TDiv(Float(self.a_0), Float(self.tau_m))
        h == TAdd(u, TMul(TMul(k, TSub(u, Float(self.u_rest))),
                          TSub(u, Float(self.u_c))))
    IN  [h |-> HardReset(self, h, o), w |-> self.w]

QIF_calc_history(self, u, o) ==
    LET k == TDiv(Float(self.a_0), Float(self.tau_m))
        h == TSub(u, TMul(TMul(k, TSub(u, Float(self.u_rest))),
                          TSub(u, Float(self.u_c))))
    IN  [h |-> HardReset(self, h, o), w |-> self.w]

EIF_init(self, tau_m, u_threshold, u_rest, u_t, delta_t, sf) ==
    LET r == UOHSkeleton_init(self, tau_m, u_threshold, u_rest, sf)
    IN  IF r.exc # "" THEN r
        ELSE Returned([r.self EXCEPT !.delta_t = delta_t, !.u_t = u_t])

EIF_calc_history(self, u, o) ==
    LET inv == TDiv(Float(One), Float(self.tau_m))
        leak == TAdd(TMul(TSub(Float(One), inv), u), TMul(inv, Float(self.u_rest)))
        e == TExp(TDiv(TSub(u, Float(self.u_t)), Float(self.delta_t)))
        h == TAdd(leak, TMul(TDiv(Float(self.delta_t), Float(self.tau_m)), e))
    IN  [h |-> HardReset(self, h, o), w |-> self.w]

Izhikevich_init(self, a, b, u_threshold, sf) ==
    LET r == UOHSkeleton_init(self, One, u_threshold, Zero, sf)
    IN  IF r.exc # "" THEN r
        ELSE Returned([r.self EXCEPT !.a = a, !.b = b])

Izhikevich_calc_potential(self, h, x) == TAdd(h, x)

\* mutant: w is updated first, and the potential is computed from the new w
Izhikevich_calc_history_w_first(self, u, o) ==
    LET w == TSub(TMul(TMul(Float(self.a), Float(self.b)), u),
                  TMul(TSub(Float(self.a), Float(One)), self.w))
        h == TSub(TAdd(TAdd(TMul(TMul(Float(Q(1, 25)), u), u),
                            TMul(Float(Q(6, 1)), u)),
                       Float(Q(140, 1))),
                  w)
    IN  IF ~IsValue(h) THEN [h |-> h, w |-> self.w]
        ELSE IF ~IsValue(w) THEN [h |-> w, w |-> self.w]
        ELSE [h |-> h, w |-> w]

\* mutant: a spike puts the potential back to u_rest, as in the other neurons
Izhikevich_calc_history_hard_reset(self, u, o) ==
    LET h == TSub(TAdd(TAdd(TMul(TMul(Float(Q(1, 25)), u), u),
                            TMul(Float(Q(6, 1)), u)),
                       Float(Q(140, 1))),
                  self.w)
        w == TSub(TMul(TMul(Float(self.a), Float(self.b)), u),
                  TMul(TSub(Float(self.a), Float(One)), self.w))
    IN  IF ~IsValue(h) THEN [h |-> h, w |-> self.w]
        ELSE IF ~IsValue(w) THEN [h |-> w, w |-> self.w]
        ELSE [h |-> HardReset(self, h, o), w |-> w]

Izhikevich_calc_history(self, u, o) ==
    LET h == TSub(TAdd(TAdd(TMul(TMul(Float(Q(1, 25)), u), u),
                            TMul(Float(Q(6, 1)), u)),
                       Float(Q(140, 1))),
                  self.w)
        w == TSub(TMul(TMul(Float(self.a), Float(self.b)), u),
                  TMul(TSub(Float(self.a), Float(One)), self.w))
    IN  IF ~IsValue(h) THEN [h |-> h, w |-> self.w]
        ELSE IF ~IsValue(w) THEN [h |-> w, w |-> self.w]
        ELSE [h |-> h, w |-> w]

\* method resolution by the class of self
calc_potential(self, h, x) ==
    IF self.cls = "Izhikevich" THEN Izhikevich_calc_potential(self, h, x)
    ELSE UOHSkeleton_calc_potential(self, h, x)

calc_spike(self, u) == UOHSkeleton_calc_spike(self, u)

calc_history(self, u, o) ==
    CASE self.cls = "IF" -> IF_calc_history(self, u, o)
      [] self.cls = "LIF" -> LIF_calc_history(self, u, o)
      [] self.cls = "QIF" -> QIF_calc_history(self, u, o)
      [] self.cls = "EIF" -> EIF_calc_history(self, u, o)
      [] self.cls = "Izhikevich" -> Izhikevich_calc_history(self, u, o)
      [] OTHER -> UOHSkeleton_calc_history(self, u, o)

(***************************************************************************)
(* UOHSkeleton.forward.  The result records, beside the object and the     *)
(* exception, the values the call computed:                                *)
(*   h   the retained potential the call started from                      *)
(*   u   the pre-firing potential (after the response phase)               *)
(*   o   the spike returned                                                *)
(***************************************************************************)
\* mutant: every call starts from the resting state
forward_from_rest(self, x) ==
    Bind({
    Bind({
    Bind({
        IF ~IsValue(u1) \/ ~IsValue(o) \/ ~IsValue(r.h)
        THEN [self |-> self, exc |-> "RuntimeError", h |-> self.u, u |-> NoAttr,
              o |-> NoAttr]
        ELSE [self |-> [self EXCEPT !.u = r.h, !.w = r.w], exc |-> "",
              h |-> self.u, u |-> u1, o |-> o]
    : r \in {calc_history([reset(self) EXCEPT !.u = u1], u1, o)} })
    : o \in {calc_spike([self EXCEPT !.u = u1], u1)} })
    : u1 \in {calc_potential(self, reset(self).u, x)} })

\* mutant: the response is not stored before the reset phase, which then
\* works on the potential retained by the previous call
forward_reset_on_retained(self, x) ==
    Bind({
    Bind({
    Bind({
        IF ~IsValue(u1) \/ ~IsValue(o) \/ ~IsValue(r.h)
        THEN [self |-> self, exc |-> "RuntimeError", h |-> self.u, u |-> NoAttr,
              o |-> NoAttr]
        ELSE [self |-> [self EXCEPT !.u = r.h, !.w = r.w], exc |-> "",
              h |-> self.u, u |-> u1, o |-> o]
    : r \in {calc_history(self, self.u, o)} })
    : o \in {calc_spike([self EXCEPT !.u = u1], u1)} })
    : u1 \in {calc_potential(self, self.u, x)} })

UOHSkeleton_forward(self, x) ==
    Bind({
    Bind({
    Bind({
        IF ~IsValue(u1)
        THEN [self |-> self, exc |-> u1.kind, h |-> self.u, u |-> NoAttr, o |-> NoAttr]
        ELSE IF ~IsValue(o)
        THEN [self |-> [self EXCEPT !.u = u1], exc |-> o.kind,
              h |-> self.u, u |-> u1, o |-> NoAttr]
        ELSE IF ~IsValue(r.h)
        THEN [self |-> [self EXCEPT !.u = u1, !.w = r.w], exc |-> r.h.kind,
              h |-> self.u, u |-> u1, o |-> NoAttr]
        ELSE [self |-> [self EXCEPT !.u = r.h, !.w = r.w], exc |-> "",
              h |-> self.u, u |-> u1, o |-> o]
    : r \in {calc_history([self EXCEPT !.u = u1], u1, o)} })
    : o \in {calc_spike([self EXCEPT !.u = u1], u1)} })
    : u1 \in {calc_potential(self, self.u, x)} })

(***************************************************************************)
(* class RORSkeleton: construction.  __init__ never assigns self.u_rest,   *)
(* which reset() reads.                                                    *)
(***************************************************************************)
RORSkeleton_reset(self) ==
    IF self.u_rest = NoNum THEN Threw(self, "AttributeError")
    ELSE Returned([self EXCEPT !.u = Float(self.u_rest)])

RORSkeleton_init(self, u_threshold, sf) ==
    IF check_spiking_function(sf) # "" THEN Threw(self, check_spiking_function(sf))
    ELSE RORSkeleton_reset([self EXCEPT !.u_threshold = u_threshold])

\* RORSkeleton.response_function: du = (1. / 2.) * (-u + x); u = u + du
RORSkeleton_response_function(self, u, x) ==
    TAdd(u, TMul(TDiv(Float(One), Float(Q(2, 1))),
                 TAdd(TMul(Float(RNeg(One)), u), x)))

\* RORSkeleton.reset_function: u * (1. - o)
RORSkeleton_reset_function(self, u, o) == TMul(u, TSub(Float(One), o))

\* RORSkeleton.forward.  o = self.spiking_function(self.u) calls the INSTANCE
\* of the autograd Function that __init__ stored, with the potential itself
\* as the argument.  torch refuses such a call for a Function with a static
\* forward (RuntimeError, "Legacy autograd function ..."); where the call is
\* served (`legacy`), forward runs on the potential as it is.
RORSkeleton_forward(self, x, legacy) ==
    LET u1 == RORSkeleton_response_function(self, self.u, x)
        o == heaviside_forward(u1)
        u2 == RORSkeleton_reset_function(self, u1, o)
    IN  IF ~IsValue(u1)
        THEN [self |-> self, exc |-> u1.kind, h |-> self.u, u |-> NoAttr, o |-> NoAttr]
        ELSE IF ~legacy
        THEN [self |-> [self EXCEPT !.u = u1], exc |-> "RuntimeError",
              h |-> self.u, u |-> u1, o |-> NoAttr]
        ELSE IF ~IsValue(o)
        THEN [self |-> [self EXCEPT !.u = u1], exc |-> o.kind,
              h |-> self.u, u |-> u1, o |-> NoAttr]
        ELSE [self |-> [self EXCEPT !.u = u2], exc |-> "", h |-> self.u, u |-> u1, o |-> o]

(***************************************************************************)
(* soma_cpp.py.  Its base class matterhorn.snn.soma.Soma is not in this    *)
(* source tree (soma.py holds the UOHSkeleton generation of the classes),  *)
(* nor is the extension matterhorn_cpp_extensions (fp_lif, bp_lif).  Both  *)
(* are modelled from the specification: Soma keeps tau_m, u_threshold,     *)
(* u_rest and the potential u, starts at rest, promotes the scalar         *)
(* placeholder to a tensor of the input's shape, and its three phases are  *)
(* the LIF row of the variant table (LIF is the variant soma_cpp.py        *)
(* defines); fp_lif runs that recurrence over the T steps from u_init,     *)
(* which it only reads (it is saved for bp_lif as the initial potential).  *)
(***************************************************************************)
\* mutant: without the extension the module falls back to another algorithm
import_with_fallback(installed) == ""

\* `from matterhorn_cpp_extensions import fp_lif, bp_lif` at the top of
\* soma_cpp.py: "" when the import of the module goes on, else the exception
import_soma_cpp(installed) ==
    IF installed THEN "" ELSE "NotImplementedError"

Soma_init(self, tau_m, u_threshold, u_rest) ==
    IF check_tau_m(tau_m) # "" THEN Threw(self, check_tau_m(tau_m))
    ELSE Returned([self EXCEPT !.tau_m = tau_m, !.u_threshold = u_threshold,
                                !.u_rest = u_rest, !.u = Float(u_rest)])

Soma_init_tensor(u, x) ==
    IF u.kind = "float" THEN Tensor([i \in 1..Shape(x) |-> u.val[1]], {}) ELSE u

Soma_f_response(self, h, x) ==
    TAdd(h, TMul(TDiv(Float(One), Float(self.tau_m)), x))

Soma_f_firing(self, u) == heaviside_forward(TSub(u, Float(self.u_threshold)))

Soma_f_reset(self, u, o) ==
    LET inv == TDiv(Float(One), Float(self.tau_m))
        h == TAdd(TMul(TSub(Float(One), inv), u), TMul(inv, Float(self.u_rest)))
    IN  TAdd(TMul(h, TSub(Float(One), o)), TMul(Float(self.u_rest), o))

\* the surrogate modules a caller may pass to SomaCPP, by class name
Surrogates == {"Rectangular", "Gaussian"}
supported_surrogate_gradients == <<"Rectangular">>

IndexOf(seq, e) == CHOOSE i \in 1..Len(seq) : seq[i] = e

\* mutant: the surrogate's class name is not checked against the list
SomaCPP_init_unchecked(self, tau_m, u_threshold, u_rest, sf) ==
    LET r == Soma_init(self, tau_m, u_threshold, u_rest)
    IN  IF r.exc # "" THEN r
        ELSE Returned([r.self EXCEPT !.spiking_function_prototype = 0,
                                     !.multi_time_step = TRUE])

SomaCPP_init(self, tau_m, u_threshold, u_rest, sf) ==
    LET r == Soma_init(self, tau_m, u_threshold, u_rest)
    IN  IF r.exc # "" THEN r
        ELSE IF \A i \in 1..Len(supported_surrogate_gradients) :
                    supported_surrogate_gradients[i] # sf
             THEN Threw(r.self, "AssertionError")
        ELSE Returned([r.self EXCEPT
                 !.spiking_function_prototype =
                     IndexOf(supported_surrogate_gradients, sf) - 1,
                 !.multi_time_step = TRUE])

SomaCPP_forward_single_time_step(self, x) ==
    LET s0 == [self EXCEPT !.u = Soma_init_tensor(self.u, x)]
        u1 == Soma_f_response(s0, s0.u, x)
        s1 == [s0 EXCEPT !.u = u1]
        o == Soma_f_firing(s1, s1.u)
        h == Soma_f_reset(s1, s1.u, o)
    IN  IF ~IsValue(u1)
        THEN [self |-> s0, exc |-> u1.kind, h |-> self.u, u |-> NoAttr, o |-> NoAttr]
        ELSE [self |-> [s1 EXCEPT !.u = h], exc |-> "", h |-> self.u, u |-> u1, o |-> o]

\* a multi-time-step call returns [self, exc, os]: os the spike tensor of
\* each step, in order (the stacked tensor o)
\* SomaCPP.forward_multi_time_step: time_steps = x.shape[0] is an int, and
\* `for t in time_steps` raises TypeError (an int is not iterable) before
\* the first step
SomaCPP_forward_multi_time_step(self, xs) ==
    LET time_steps == Len(xs)
    IN  [self |-> self, exc |-> "TypeError", os |-> <<>>]

\* fp_lif(o, u, h, x, time_steps, u_init, tau_m, u_rest, u_threshold): the
\* state [self with u = the potential after step t] and the spikes so far
RECURSIVE fp_lif(_, _, _)
fp_lif(self, xs, t) ==
    IF t = 0 THEN [self |-> self, os |-> <<>>]
    ELSE LET p == fp_lif(self, xs, t - 1)
             u1 == Soma_f_response(p.self, p.self.u, xs[t])
             o == Soma_f_firing(p.self, u1)
             h == Soma_f_reset(p.self, u1, o)
         IN  [self |-> [p.self EXCEPT !.u = h], os |-> Append(p.os, o)]

multi_time_step_lif_forward(self, xs, u_init) ==
    fp_lif([self EXCEPT !.u = u_init], xs, Len(xs)).os

LIF_forward_multi_time_step(self, xs) ==
    LET s0 == [self EXCEPT !.u = Soma_init_tensor(self.u, xs[1])]
    IN  [self |-> s0, exc |-> "", os |-> multi_time_step_lif_forward(s0, xs, s0.u)]

SomaCPP_forward(self, xs) ==
    IF self.multi_time_step
    THEN IF self.cls = "LIFCPP" THEN LIF_forward_multi_time_step(self, xs)
         ELSE SomaCPP_forward_multi_time_step(self, xs)
    ELSE LET r == SomaCPP_forward_single_time_step(self, xs[1])
         IN  [self |-> r.self, exc |-> r.exc,
              os |-> IF r.exc = "" THEN <<r.o>> ELSE <<>>]

(***************************************************************************)
(* data/skeleton.py: EventDataset.  A concrete dataset overrides load_data *)
(* (the base method returns None, on which pre_process fails); what it     *)
(* returns, and the event arrays save_event_data has stored, are inputs.   *)
(* A stored event array is a sequence of integers, a label an integer; a   *)
(* Python number is carried as the scalar of the tensor algebra.           *)
(***************************************************************************)
\* samples a dataset holds
MaxSamples == 3

\* processed_folder/<data_idx>.npy, for data_idx = 0, 1, 2, ...:
\* [0, 1], [2], [1, 1], and so on in turn
EventFiles ==
    [i \in 1..MaxSamples |->
        IF i % 3 = 1 THEN <<0, 1>> ELSE IF i % 3 = 2 THEN <<2>> ELSE <<1, 1>>]

\* what transform and target_transform may be: None or a callable that
\* accepts a number as well as a tensor
NoneT == "None"
Transforms == {NoneT, "plus_one", "times_two"}

\* transform(v) for a callable
Call(f, v) ==
    IF f = "plus_one" THEN TAdd(v, Float(One)) ELSE TMul(v, Float(Q(2, 1)))

\* load_data(): one row (data_idx, label, 1 for training / 0 for test) per sample
LoadDataVals ==
    {[i \in 1..MaxSamples |-> <<i - 1, lab[i], tr[i]>>] :
        lab \in [1..MaxSamples -> {0, 1}],
        tr \in {[i \in 1..MaxSamples |-> IF i <= k THEN 1 ELSE 0] :
                   k \in 1..MaxSamples}}

RECURSIVE Filter(_, _)
\* data_target[data_target[:, 2] == flag][:, :2]
Filter(rows, flag) ==
    IF rows = <<>> THEN <<>>
    ELSE IF Head(rows)[3] = flag
         THEN <<SubSeq(Head(rows), 1, 2)>> \o Filter(Tail(rows), flag)
         ELSE Filter(Tail(rows), flag)

\* the orders random.shuffle may leave a list in
Shuffles(rows) ==
    {[i \in 1..Len(rows) |-> rows[p[i]]] :
        p \in {q \in [1..Len(rows) -> 1..Len(rows)] :
                  \A i, j \in 1..Len(rows) : q[i] = q[j] => i = j}}

NoDataset == [cls |-> "", train |-> FALSE, transform |-> NoneT,
              target_transform |-> NoneT, data_target |-> <<>>]
NoItem == [index |-> -1, exc |-> "", data |-> NoAttr, target |-> NoAttr]

\* EventDataset.pre_process, for rows = load_data(): the objects it may leave,
\* one for each order random.shuffle may produce
EventDataset_pre_process(self, rows) ==
    {[self EXCEPT !.data_target = shuffled] :
        shuffled \in Shuffles(Filter(rows, IF self.train THEN 1 ELSE 0))}

\* EventDataset.__init__ (download = False; resources is empty, so
\* check_exists() holds)
EventDataset_init(train, transform, target_transform, rows) ==
    EventDataset_pre_process(
        [cls |-> "EventDataset", train |-> train, transform |-> transform,
         target_transform |-> target_transform, data_target |-> <<>>],
        rows)

\* the base decompress_event_data returns its argument
EventDataset_decompress_event_data(self, data) == data

\* torch.tensor(data, dtype = torch.float)
EventDataset_event_data_2_tensor(self, data) ==
    Tensor([i \in 1..Len(data) |-> Q(data[i], 1)], {})

\* EventDataset.__getitem__, 0 <= index
EventDataset_getitem(self, index) ==
    IF index >= Len(self.data_target)
    THEN [index |-> index, exc |-> "IndexError", data |-> NoAttr, target |-> NoAttr]
    ELSE LET data_idx == self.data_target[index + 1][1]
             data0 == EventDataset_event_data_2_tensor(self,
                          EventDataset_decompress_event_data(self,
                              EventFiles[data_idx + 1]))
             target == Float(Q(self.data_target[index + 1][2], 1))
             data == IF self.transform # NoneT THEN Call(self.transform, data0)
                     ELSE data0
         IN  [index |-> index, exc |-> "", data |-> data,
              target |-> IF self.target_transform # NoneT
                         THEN Call(self.target_transform, data) ELSE target]

(***************************************************************************)
(* data/skeleton.py: EventDataset1d and EventDataset2d, which render an    *)
(* event array (one row per event, first column the timestamp) into a      *)
(* tensor of zeros and ones.  The tensor is carried as its shape and the   *)
(* set of positions that hold 1.                                           *)
(***************************************************************************)
\* the largest timestamp of an event
MaxTime == 4
\* events in one array
MaxEvents == 2

\* t_size, the time steps of the rendered tensor
TSizeVals == {1, 3, 128}

\* clipped: <<>> is None, <<n>> an int, <<a, b>> a tuple
ClippedVals == {<<>>, <<2>>, <<1, 3>>, <<3, 1>>}

\* original_size[0] of the class: 1 in both classes, more where a subclass
\* declares the length of its recordings
OriginalTVals == {1, 8}

\* the event arrays handed to event_data_2_tensor: one column for each entry
\* of `originals`, the timestamp first, every other coordinate at either end
\* of the sensor's range 0 .. originals[c] - 1
EventArrays(originals) ==
    LET Events == {[c \in 1..Len(originals) |->
                       IF c = 1 THEN t ELSE IF far THEN originals[c] - 1 ELSE 0] :
                       t \in 0..MaxTime, far \in BOOLEAN}
    IN  UNION {[1..n -> Events] : n \in 1..MaxEvents}

NoConv == [op |-> "", data |-> <<>>, exc |-> "", idx |-> {}, shape |-> <<>>, res |-> {}]

\* the clipped filter at the head of every conversion (lines 228-232)
clip(self, data) ==
    IF Len(self.clipped) = 1
    THEN SelectSeq(data, LAMBDA e : e[1] < self.clipped[1])
    ELSE IF Len(self.clipped) = 2
    THEN SelectSeq(data, LAMBDA e : e[1] >= self.clipped[1] /\ e[1] < self.clipped[2])
    ELSE data

\* np.max(data[:, 0])
MaxT0(data) == CHOOSE m \in {data[i][1] : i \in 1..Len(data)} :
                   \A i \in 1..Len(data) : data[i][1] <= m

Max2(a, b) == IF a >= b THEN a ELSE b

\* np.floor(column * size / original), stored back into the integer column
rescale(v, size, original) == (v * size) \div original

\* mutant: the time column is divided by the largest timestamp itself
rescale_time_by_max(self, data) ==
    [i \in 1..Len(data) |->
        [data[i] EXCEPT ![1] =
            rescale(data[i][1], self.t_size,
                    Max2(MaxT0(data), self.original_size[1]))]]

\* data[:, 0] = np.floor(data[:, 0] * self.t_size /
\*                        max(np.max(data[:, 0]) + 1, self.original_size[0]))
rescale_time(self, data) ==
    [i \in 1..Len(data) |->
        [data[i] EXCEPT ![1] =
            rescale(data[i][1], self.t_size,
                    Max2(MaxT0(data) + 1, self.original_size[1]))]]

\* the remaining columns: sizes[c] and originals[c] for column c >= 2
rescale_space(data, sizes, originals) ==
    [i \in 1..Len(data) |->
        [c \in 1..Len(data[i]) |->
            IF c = 1 THEN data[i][1]
            ELSE rescale(data[i][c], sizes[c], originals[c])]]

\* res = torch.zeros(shape); data = np.unique(data, axis = 0); res[data.T] = 1
\* with one index array per dimension: an index below -size or from size on
\* raises IndexError, a negative one counts from the end
render(op, data0, data, shape) ==
    LET idx == {data[i] : i \in 1..Len(data)}
    IN  IF \E e \in idx : \E c \in 1..Len(shape) : e[c] < -shape[c] \/ e[c] >= shape[c]
        THEN [op |-> op, data |-> data0, exc |-> "IndexError", idx |-> idx,
              shape |-> shape, res |-> {}]
        ELSE [op |-> op, data |-> data0, exc |-> "", idx |-> idx, shape |-> shape,
              res |-> {[c \in 1..Len(shape) |->
                           IF e[c] < 0 THEN e[c] + shape[c] ELSE e[c]] : e \in idx}]

\* np.max of an empty array
NoEvents(op, data0) ==
    [op |-> op, data |-> data0, exc |-> "ValueError", idx |-> {}, shape |-> <<>>,
     res |-> {}]

EventDataset1d_tx_2_tensor(self, data) ==
    LET d == clip(self, data)
    IN  IF d = <<>> THEN NoEvents("tx", data)
        ELSE render("tx", data,
                    rescale_space(rescale_time(self, d),
                                  <<0, self.x_size>>, <<0, self.original_size[3]>>),
                    <<self.t_size, self.x_size>>)

EventDataset1d_tpx_2_tensor(self, data) ==
    LET d == clip(self, data)
    IN  IF d = <<>> THEN NoEvents("tpx", data)
        ELSE render("tpx", data,
                    rescale_space(rescale_time(self, d),
                                  <<0, self.p_size, self.x_size>>,
                                  <<0, self.original_size[2], self.original_size[3]>>),
                    <<self.t_size, self.p_size, self.x_size>>)

EventDataset1d_event_data_2_tensor(self, data) ==
    IF self.original_data_polarity_exists
    THEN EventDataset1d_tpx_2_tensor(self, data)
    ELSE EventDataset1d_tx_2_tensor(self, data)

EventDataset2d_tyx_2_tensor(self, data) ==
    LET d == clip(self, data)
    IN  IF d = <<>> THEN NoEvents("tyx", data)
        ELSE render("tyx", data,
                    rescale_space(rescale_time(self, d),
                                  <<0, self.y_size, self.x_size>>,
                                  <<0, self.original_size[3], self.original_size[4]>>),
                    <<self.t_size, self.y_size, self.x_size>>)

EventDataset2d_tpyx_2_tensor(self, data) ==
    LET d == clip(self, data)
    IN  IF d = <<>> THEN NoEvents("tpyx", data)
        ELSE render("tpyx", data,
                    rescale_space(rescale_time(self, d),
                                  <<0, self.p_size, self.y_size, self.x_size>>,
                                  <<0, self.original_size[2], self.original_size[3],
                                    self.original_size[4]>>),
                    <<self.t_size, self.p_size, self.y_size, self.x_size>>)

EventDataset2d_event_data_2_tensor(self, data) ==
    IF self.original_data_polarity_exists
    THEN EventDataset2d_tpyx_2_tensor(self, data)
    ELSE EventDataset2d_tyx_2_tensor(self, data)

\* the sensor's range in each column of the event arrays a dataset stores
\* (the time column has none)
Originals(self) ==
    <<0>> \o (IF self.original_data_polarity_exists
              THEN <<self.original_size[2]>> ELSE <<>>)
          \o SubSeq(self.original_size, 3, Len(self.original_size))

\* assert clipped[1] > clipped[0] for a tuple
check_clipped(clipped) ==
    IF Len(clipped) = 2 /\ ~(clipped[2] > clipped[1]) THEN "AssertionError" ELSE ""

\* EventDataset1d.__init__ with the default x_size and polarity, for a class
\* with the given original_size[0] and original_data_polarity_exists
EventDataset1d_init(t_size, clipped, original_t, polarity_exists) ==
    [cls |-> IF check_clipped(clipped) = "" THEN "EventDataset1d" ELSE "",
     exc |-> check_clipped(clipped),
     t_size |-> t_size, p_size |-> 2, y_size |-> 0, x_size |-> 128,
     clipped |-> clipped, original_size |-> <<original_t, 2, 128>>,
     original_data_polarity_exists |-> polarity_exists]

\* EventDataset2d.__init__, likewise
EventDataset2d_init(t_size, clipped, original_t, polarity_exists) ==
    [cls |-> IF check_clipped(clipped) = "" THEN "EventDataset2d" ELSE "",
     exc |-> check_clipped(clipped),
     t_size |-> t_size, p_size |-> 2, y_size |-> 128, x_size |-> 128,
     clipped |-> clipped, original_size |-> <<original_t, 2, 128, 128>>,
     original_data_polarity_exists |-> polarity_exists]

(***************************************************************************)
(* The state: one soma object and the record of the calls made on it       *)
(***************************************************************************)
VARIABLES
    status,     \* "none": not constructed; "imported": soma_cpp is imported;
                \* "live"; "failed": the import or __init__ raised
    soma,       \* the object's attributes
    ctor,       \* the constructor call: class, arguments, exception, and
                \* the object as the constructor left it
    last,       \* the last call on the live object
    steps,      \* forward steps taken since the potential was last at rest
    detachAt,   \* steps at the last detach() since then
    fresh,      \* a second object, freshly constructed with the same arguments
                \* when the first was constructed or last reset, and given the
                \* same inputs since
    resetSeen,  \* reset() has been called on the object after a forward call
    extension,  \* matterhorn_cpp_extensions, once `import matterhorn.snn.soma_cpp`
                \* has looked for it: "installed" or "missing" ("unprobed" before)
    dataset,    \* an EventDataset object: its attributes after __init__
    item,       \* the last dataset[index] call and what it returned
    conv        \* the last event_data_2_tensor call of an EventDataset1d/2d

vars == <<status, soma, ctor, last, steps, detachAt, fresh, resetSeen, extension,
          dataset, item, conv>>

UOHClasses == {"UOHSkeleton", "IF", "LIF", "QIF", "EIF", "Izhikevich"}
CPPClasses == {"SomaCPP", "LIFCPP"}

\* the arguments the callers of the model pass
TauVals == {Zero, One, Q(2, 1)}
ThrVals == {One, PInf}
RestVals == {Zero, Q(1, 4)}
UcVals == {Q(4, 5)}
A0Vals == {One}
UtVals == {Q(8, 1)}
DeltaTVals == {One}
ABVals == {One, Q(2, 1)}
\* (200: an input current strong enough to take exp() in EIF beyond float32)
XVals == {Zero, Q(1, 2), Q(200, 1)}

\* input tensors: of length 1 with each value, and of each length 2..MaxLen
\* with the elements 0, 1, 2, ...
Ramp(n) == [i \in 1..n |-> Q(i - 1, 1)]
InputVals == {<<v>> : v \in XVals} \cup {Ramp(n) : n \in 2..MaxLen}

\* the input of forward step k: it requires grad (it is computed from the
\* weights of the synapse before the soma), so the autograd graph of what
\* is computed from it reaches step k
Input(vals, k) == Tensor(vals, {k})

\* the potential of QIF and Izhikevich is squared at every step: from the
\* third step on the exact values leave TLC's 32-bit integers
StepCap(cls) ==
    IF cls \in {"QIF", "Izhikevich"} /\ MaxSteps > 2 THEN 2 ELSE MaxSteps

\* for the same reason QIF takes no further step from a potential beyond
\* +-4096 (reached when a strong input meets an infinite threshold)
InRange(self) ==
    (self.cls = "QIF" /\ IsTensor(self.u)) =>
        \A i \in 1..Shape(self.u) :
            IsFin(self.u.val[i]) => Abs(self.u.val[i][1]) < 4096 * self.u.val[i][2]

\* the record of a call: op its name, xs the input of each time step, exc the
\* exception raised, pre the object before the call, u the pre-firing
\* potential it computed, os the spike tensor of each time step, and
\* fresh_os what the second object returned for the same input
NoLast == [op |-> "", xs |-> <<>>, exc |-> "", pre |-> NewObject(""),
           u |-> NoAttr, os |-> <<>>, fresh_os |-> <<>>]

CtorArgs(cls, tau_m, u_threshold, u_rest, sf, exc) ==
    [cls |-> cls, tau_m |-> tau_m, u_threshold |-> u_threshold,
     u_rest |-> u_rest, sf |-> sf, exc |-> exc, made |-> NewObject("")]

Init ==
    /\ status = "none"
    /\ soma = NewObject("")
    /\ ctor = CtorArgs("", NoNum, NoNum, NoNum, "", "")
    /\ last = NoLast
    /\ steps = 0
    /\ detachAt = 0
    /\ fresh = NewObject("")
    /\ resetSeen = FALSE
    /\ extension = "unprobed"
    /\ dataset = NoDataset
    /\ item = NoItem
    /\ conv = NoConv

\* the object after `r`, the result of running the constructor
Constructed(args, r) ==
    /\ status = IF args.cls \in CPPClasses THEN "imported" ELSE "none"
    /\ status' = IF r.exc = "" THEN "live" ELSE "failed"
    /\ soma' = r.self
    /\ fresh' = r.self
    /\ ctor' = [args EXCEPT !.exc = r.exc, !.made = r.self]
    /\ UNCHANGED <<last, steps, detachAt, resetSeen, extension, dataset, item, conv>>

ConstructUOHSkeleton ==
    \E tau \in TauVals, thr \in ThrVals, rest \in RestVals, sf \in SpikingFunctions :
        Constructed(CtorArgs("UOHSkeleton", tau, thr, rest, sf, ""),
                    UOHSkeleton_init(NewObject("UOHSkeleton"), tau, thr, rest, sf))

ConstructRORSkeleton ==
    \E thr \in ThrVals, sf \in SpikingFunctions :
        Constructed(CtorArgs("RORSkeleton", NoNum, thr, NoNum, sf, ""),
                    RORSkeleton_init(NewObject("RORSkeleton"), thr, sf))

ConstructIF ==
    \E thr \in ThrVals, rest \in RestVals, sf \in SpikingFunctions :
        Constructed(CtorArgs("IF", NoNum, thr, rest, sf, ""),
                    IF_init(NewObject("IF"), thr, rest, sf))

ConstructLIF ==
    \E tau \in TauVals, thr \in ThrVals, rest \in RestVals, sf \in SpikingFunctions :
        Constructed(CtorArgs("LIF", tau, thr, rest, sf, ""),
                    LIF_init(NewObject("LIF"), tau, thr, rest, sf))

ConstructQIF ==
    \E tau \in TauVals, thr \in ThrVals, rest \in RestVals, sf \in SpikingFunctions,
       uc \in UcVals, a0 \in A0Vals :
        Constructed(CtorArgs("QIF", tau, thr, rest, sf, ""),
                    QIF_init(NewObject("QIF"), tau, thr, rest, uc, a0, sf))

ConstructEIF ==
    \E tau \in TauVals, thr \in ThrVals, rest \in RestVals, sf \in SpikingFunctions,
       ut \in UtVals, dt \in DeltaTVals :
        Constructed(CtorArgs("EIF", tau, thr, rest, sf, ""),
                    EIF_init(NewObject("EIF"), tau, thr, rest, ut, dt, sf))

ConstructIzhikevich ==
    \E a \in ABVals, b \in ABVals, thr \in ThrVals, sf \in SpikingFunctions :
        Constructed(CtorArgs("Izhikevich", NoNum, thr, NoNum, sf, ""),
                    Izhikevich_init(NewObject("Izhikevich"), a, b, thr, sf))

\* import matterhorn.snn.soma_cpp, with or without the extension installed
ImportSomaCPP ==
    /\ status = "none"
    /\ \E installed \in BOOLEAN :
         /\ extension' = IF installed THEN "installed" ELSE "missing"
         /\ status' = IF import_soma_cpp(installed) = "" THEN "imported" ELSE "failed"
         /\ ctor' = CtorArgs("soma_cpp", NoNum, NoNum, NoNum, "",
                             import_soma_cpp(installed))
    /\ UNCHANGED <<soma, last, steps, detachAt, fresh, resetSeen, dataset, item, conv>>

ConstructSomaCPP ==
    \E cls \in CPPClasses, tau \in TauVals, thr \in ThrVals, rest \in RestVals,
       sf \in Surrogates :
        Constructed(CtorArgs(cls, tau, thr, rest, sf, ""),
                    SomaCPP_init(NewObject(cls), tau, thr, rest, sf))

\* soma.forward(x) on a UOH soma; the second object gets the same input
Forward ==
    /\ status = "live"
    /\ soma.cls \in UOHClasses
    /\ steps < StepCap(soma.cls)
    /\ InRange(soma)
    /\ \E vals \in InputVals :
         \E x \in {Input(vals, steps + 1)} :
         \E r \in {UOHSkeleton_forward(soma, x)} :
         \E f \in {UOHSkeleton_forward(fresh, x)} :
             /\ soma' = r.self
             /\ last' = [op |-> "forward", xs |-> <<x>>, exc |-> r.exc, pre |-> soma,
                         u |-> r.u, os |-> IF r.exc = "" THEN <<r.o>> ELSE <<>>,
                         fresh_os |-> IF f.exc = "" THEN <<f.o>> ELSE <<>>]
             /\ fresh' = f.self
    /\ steps' = steps + 1
    /\ UNCHANGED <<status, ctor, detachAt, resetSeen, extension, dataset, item, conv>>

Reset ==
    /\ status = "live"
    /\ soma.cls \in UOHClasses
    /\ soma' = reset(soma)
    /\ last' = [NoLast EXCEPT !.op = "reset", !.pre = soma]
    /\ fresh' = ctor.made
    /\ steps' = 0
    /\ detachAt' = 0
    /\ resetSeen' = (resetSeen \/ IsTensor(soma.u))
    /\ UNCHANGED <<status, ctor, extension, dataset, item, conv>>

Detach ==
    /\ status = "live"
    /\ soma.cls \in UOHClasses
    /\ soma' = detach(soma)
    /\ last' = [NoLast EXCEPT !.op = "detach", !.pre = soma]
    /\ detachAt' = steps
    /\ UNCHANGED <<status, ctor, steps, fresh, resetSeen, extension, dataset, item, conv>>

\* the T-step input sequences of tensors of length n
InputSeqs(T, n, k) ==
    {[t \in 1..T |-> Input(f[t], k + t)] :
        f \in [1..T -> {v \in InputVals : Len(v) = n}]}

\* soma.forward(x) on a SomaCPP / LIF of soma_cpp.py, x a stacked tensor of
\* T steps whose step shape is the shape of the potential once established
ForwardCPP ==
    /\ status = "live"
    /\ soma.cls \in CPPClasses
    /\ steps < MaxSteps
    /\ \E T \in 1..MaxT, n \in 1..MaxLen :
         /\ IsTensor(soma.u) => Shape(soma.u) = n
         /\ \E xs \in InputSeqs(T, n, steps) :
              \E r \in {SomaCPP_forward(soma, xs)} :
                  /\ soma' = r.self
                  /\ last' = [op |-> "forward_multi", xs |-> xs, exc |-> r.exc,
                              pre |-> soma, u |-> NoAttr, os |-> r.os,
                              fresh_os |-> <<>>]
                  /\ steps' = steps + T
    /\ UNCHANGED <<status, ctor, detachAt, fresh, resetSeen, extension, dataset, item, conv>>

\* soma.forward_single_time_step(x) called directly
ForwardSingleCPP ==
    /\ status = "live"
    /\ soma.cls \in CPPClasses
    /\ steps < MaxSteps
    /\ \E vals \in InputVals :
         \E x \in {Input(vals, steps + 1)} :
         \E r \in {SomaCPP_forward_single_time_step(soma, x)} :
             /\ soma' = r.self
             /\ last' = [op |-> "forward_single", xs |-> <<x>>, exc |-> r.exc,
                         pre |-> soma, u |-> r.u,
                         os |-> IF r.exc = "" THEN <<r.o>> ELSE <<>>,
                         fresh_os |-> <<>>]
    /\ steps' = steps + 1
    /\ UNCHANGED <<status, ctor, detachAt, fresh, resetSeen, extension, dataset, item, conv>>

Next ==
    \/ ConstructUOHSkeleton
    \/ ConstructRORSkeleton
    \/ ConstructIF
    \/ ConstructLIF
    \/ ConstructQIF
    \/ ConstructEIF
    \/ ConstructIzhikevich
    \/ ImportSomaCPP
    \/ ConstructSomaCPP
    \/ Forward
    \/ Reset
    \/ Detach
    \/ ForwardCPP
    \/ ForwardSingleCPP

Spec == Init /\ [][Next]_vars

(***************************************************************************)
(* A caller-managed loop: one forward call per time step on an IF or LIF   *)
(* soma, the same input tensor at every step (the scenario of a constant   *)
(* input current).  `last` records the loop: xs and os hold the input and  *)
(* the spike of every call so far, the latest first; u and pre are those   *)
(* of the latest call.                                                     *)
(***************************************************************************)
LoopInputVals ==
    {<<Zero>>, <<Q(1, 4)>>, <<Q(1, 2)>>, <<One>>, <<Q(1, 4), Q(1, 2)>>}

LoopForward ==
    /\ status = "live"
    /\ soma.cls \in {"IF", "LIF"}
    /\ steps < MaxLoopSteps
    /\ last.exc = ""
    /\ \E vals \in LoopInputVals :
         /\ steps > 0 => vals = last.xs[1].val
         /\ \E x \in {Input(vals, steps + 1)} :
            \E r \in {UOHSkeleton_forward(soma, x)} :
                /\ soma' = r.self
                /\ last' = [op |-> "forward", xs |-> <<x>> \o last.xs, exc |-> r.exc,
                            pre |-> soma, u |-> r.u,
                            os |-> IF r.exc = "" THEN <<r.o>> \o last.os ELSE last.os,
                            fresh_os |-> <<>>]
    /\ steps' = steps + 1
    /\ UNCHANGED <<status, ctor, detachAt, fresh, resetSeen, extension, dataset, item, conv>>

LoopNext ==
    \/ ConstructIF
    \/ ConstructLIF
    \/ LoopForward

LoopSpec == Init /\ [][LoopNext]_vars

(***************************************************************************)
(* Unusual configurations: membrane time constants that are negative or    *)
(* below 1, and EIF with delta_t = 0, each followed by a few forward calls *)
(* on one neuron.                                                          *)
(***************************************************************************)
ConfigTauVals == {Zero, RNeg(One), Q(1, 4), Q(1, 2), One, Q(2, 1)}
ConfigDeltaTVals == {Zero, One}
ConfigInputVals == {<<Zero>>, <<Q(1, 8)>>, <<Q(1, 2)>>, <<Q(8, 1)>>}

ConfigConstructIF ==
    \E rest \in RestVals :
        Constructed(CtorArgs("IF", NoNum, One, rest, "Function", ""),
                    IF_init(NewObject("IF"), One, rest, "Function"))

ConfigConstructLIF ==
    \E tau \in ConfigTauVals, rest \in RestVals :
        Constructed(CtorArgs("LIF", tau, One, rest, "Function", ""),
                    LIF_init(NewObject("LIF"), tau, One, rest, "Function"))

ConfigConstructEIF ==
    \E tau \in {One, Q(2, 1)}, dt \in ConfigDeltaTVals, ut \in UtVals :
        Constructed(CtorArgs("EIF", tau, One, Zero, "Function", ""),
                    EIF_init(NewObject("EIF"), tau, One, Zero, ut, dt, "Function"))

ConfigForward ==
    /\ status = "live"
    /\ steps < MaxConfigSteps
    /\ \E vals \in ConfigInputVals :
         \E x \in {Input(vals, steps + 1)} :
         \E r \in {UOHSkeleton_forward(soma, x)} :
             /\ soma' = r.self
             /\ last' = [op |-> "forward", xs |-> <<x>>, exc |-> r.exc, pre |-> soma,
                         u |-> r.u, os |-> IF r.exc = "" THEN <<r.o>> ELSE <<>>,
                         fresh_os |-> <<>>]
    /\ steps' = steps + 1
    /\ UNCHANGED <<status, ctor, detachAt, fresh, resetSeen, extension, dataset, item, conv>>

ConfigNext ==
    \/ ConfigConstructIF
    \/ ConfigConstructLIF
    \/ ConfigConstructEIF
    \/ ConfigForward

ConfigSpec == Init /\ [][ConfigNext]_vars

(***************************************************************************)
(* RORSkeleton.forward as a function of the object and the input.  No      *)
(* RORSkeleton leaves __init__ (reset() reads the u_rest that is never     *)
(* set), so the objects forward is applied to are drawn directly: the      *)
(* attributes __init__ assigns (u_threshold, spiking_function) and a       *)
(* potential u, as an object would hold them had reset() found a u_rest.   *)
(***************************************************************************)
RORThrVals == {Q(1, 2), One}
RORPotentials == {Float(Zero), Float(Q(1, 4)), Tensor(<<Q(1, 2)>>, {})}
RORInputVals == {<<Zero>>, <<One>>, <<Q(3, 1)>>, <<RNeg(One)>>, <<Zero, Q(3, 1)>>}

RORInit ==
    /\ status = "live"
    /\ \E thr \in RORThrVals, u \in RORPotentials :
         /\ soma = [NewObject("RORSkeleton") EXCEPT !.u_threshold = thr, !.u = u]
         /\ ctor = [CtorArgs("RORSkeleton", NoNum, thr, NoNum, "Function", "")
                       EXCEPT !.made = soma]
         /\ fresh = soma
    /\ last = NoLast
    /\ steps = 0
    /\ detachAt = 0
    /\ resetSeen = FALSE
    /\ extension = "unprobed"
    /\ dataset = NoDataset
    /\ item = NoItem
    /\ conv = NoConv

RORForward ==
    /\ status = "live"
    /\ soma.cls = "RORSkeleton"
    /\ steps < MaxRORSteps
    /\ last.exc = ""
    /\ \E vals \in RORInputVals, legacy \in BOOLEAN :
         \E x \in {Input(vals, steps + 1)} :
         \E r \in {RORSkeleton_forward(soma, x, legacy)} :
             /\ soma' = r.self
             /\ last' = [op |-> "forward", xs |-> <<x>>, exc |-> r.exc, pre |-> soma,
                         u |-> r.u, os |-> IF r.exc = "" THEN <<r.o>> ELSE <<>>,
                         fresh_os |-> <<>>]
    /\ steps' = steps + 1
    /\ UNCHANGED <<status, ctor, detachAt, fresh, resetSeen, extension, dataset, item, conv>>

RORNext == RORForward

RORSpec == RORInit /\ [][RORNext]_vars

(***************************************************************************)
(* The dataset: construction, then item reads.                             *)
(***************************************************************************)
DatasetConstruct ==
    /\ dataset = NoDataset
    /\ \E train \in BOOLEAN, transform \in Transforms, target_transform \in Transforms,
          rows \in LoadDataVals :
         dataset' \in EventDataset_init(train, transform, target_transform, rows)
    /\ UNCHANGED <<status, soma, ctor, last, steps, detachAt, fresh, resetSeen,
                   extension, item, conv>>

DatasetGetItem ==
    /\ dataset.cls = "EventDataset"
    /\ \E index \in 0..(MaxSamples - 1) :
         item' = EventDataset_getitem(dataset, index)
    /\ UNCHANGED <<status, soma, ctor, last, steps, detachAt, fresh, resetSeen,
                   extension, dataset, conv>>

DatasetNext == DatasetConstruct \/ DatasetGetItem

DatasetSpec == Init /\ [][DatasetNext]_vars

(***************************************************************************)
(* Rendering: an EventDataset1d or EventDataset2d is constructed, then     *)
(* event_data_2_tensor is applied to an event array, as __getitem__ does.  *)
(* The conversion reads the object and its argument only and changes       *)
(* neither, so a behaviour applies it once to each object it constructs.   *)
(***************************************************************************)
ConstructEventDataset1d ==
    /\ dataset = NoDataset
    /\ \E t_size \in TSizeVals, clipped \in ClippedVals, original_t \in OriginalTVals,
          polarity_exists \in BOOLEAN :
         dataset' = EventDataset1d_init(t_size, clipped, original_t, polarity_exists)
    /\ UNCHANGED <<status, soma, ctor, last, steps, detachAt, fresh, resetSeen,
                   extension, item, conv>>

ConstructEventDataset2d ==
    /\ dataset = NoDataset
    /\ \E t_size \in TSizeVals, clipped \in ClippedVals, original_t \in OriginalTVals,
          polarity_exists \in BOOLEAN :
         dataset' = EventDataset2d_init(t_size, clipped, original_t, polarity_exists)
    /\ UNCHANGED <<status, soma, ctor, last, steps, detachAt, fresh, resetSeen,
                   extension, item, conv>>

EventData2Tensor1d ==
    /\ dataset.cls = "EventDataset1d"
    /\ conv = NoConv
    /\ \E data \in EventArrays(Originals(dataset)) :
         conv' = EventDataset1d_event_data_2_tensor(dataset, data)
    /\ UNCHANGED <<status, soma, ctor, last, steps, detachAt, fresh, resetSeen,
                   extension, dataset, item>>

EventData2Tensor2d ==
    /\ dataset.cls = "EventDataset2d"
    /\ conv = NoConv
    /\ \E data \in EventArrays(Originals(dataset)) :
         conv' = EventDataset2d_event_data_2_tensor(dataset, data)
    /\ UNCHANGED <<status, soma, ctor, last, steps, detachAt, fresh, resetSeen,
                   extension, dataset, item>>

RenderNext ==
    \/ ConstructEventDataset1d
    \/ ConstructEventDataset2d
    \/ EventData2Tensor1d
    \/ EventData2Tensor2d

RenderSpec == Init /\ [][RenderNext]_vars

(***************************************************************************)
(* Properties                                                              *)
(***************************************************************************)
Spiking == {"IF", "LIF", "QIF", "EIF", "Izhikevich"}

\* the last call was forward(x) on a live soma of soma.py, and it returned
ForwardReturned ==
    status = "live" /\ last.op = "forward" /\ last.exc = ""

\* kind and elements of a value, without its autograd history
Plain(v) == [kind |-> v.kind, val |-> v.val]

\* C1: in every forward call of IF, LIF, QIF, EIF and Izhikevich the phases
\* run in the order response, firing, reset: the pre-firing potential is the
\* response to the retained potential and the input, the spike is computed
\* from that pre-firing potential (1 exactly where it reaches u_threshold),
\* and the potential (and w) retained for the next call is calc_history of that
\* same pre-firing potential and that same spike.
C1_PhaseOrder ==
    (ForwardReturned /\ soma.cls \in Spiking) =>
        /\ last.u = calc_potential(last.pre, last.pre.u, last.xs[1])
        /\ last.os[1] = calc_spike([last.pre EXCEPT !.u = last.u], last.u)
        /\ Shape(last.os[1]) = Shape(last.u)
        /\ \A i \in 1..Shape(last.u) :
               IsFin(last.u.val[i]) =>
                   ((last.os[1].val[i] = One) <=> RGe(last.u.val[i], soma.u_threshold))
        /\ soma.u = calc_history([last.pre EXCEPT !.u = last.u], last.u, last.os[1]).h
        /\ soma.w = calc_history([last.pre EXCEPT !.u = last.u], last.u, last.os[1]).w

\* a second forward call in which a neuron fired and another did not
C1_Witness ==
    /\ ForwardReturned /\ soma.cls = "LIF" /\ steps = 2
    /\ \E i, j \in 1..Shape(last.u) :
           last.os[1].val[i] = One /\ last.os[1].val[j] = Zero

\* C2: at every step and for every neuron the spike is 1 when
\* (pre-firing potential - u_threshold) >= 0, equality included, and 0
\* otherwise; no other value is produced.
C2_SpikeIsHeaviside ==
    (ForwardReturned /\ soma.cls \in Spiking) =>
        /\ IsTensor(last.os[1])
        /\ Shape(last.os[1]) = Shape(last.u)
        /\ \A i \in 1..Shape(last.u) :
               last.os[1].val[i] =
                   IF RGe(RSub(last.u.val[i], soma.u_threshold), Zero)
                   THEN One ELSE Zero

\* a neuron whose pre-firing potential equals the threshold exactly fired,
\* and one below it did not
C2_Witness ==
    /\ ForwardReturned /\ soma.cls \in Spiking
    /\ \E i, j \in 1..Shape(last.u) :
           /\ last.u.val[i] = soma.u_threshold /\ last.os[1].val[i] = One
           /\ ~RGe(last.u.val[j], soma.u_threshold) /\ last.os[1].val[j] = Zero

\* the soma after T successive forward_single_time_step calls on xs[1..T], and
\* the spike each call returned
RECURSIVE SingleSteps(_, _, _)
SingleSteps(self, xs, t) ==
    IF t = 0 THEN [self |-> self, exc |-> "", os |-> <<>>]
    ELSE LET p == SingleSteps(self, xs, t - 1)
             r == SomaCPP_forward_single_time_step(p.self, xs[t])
         IN  IF p.exc # "" THEN p
             ELSE IF r.exc # "" THEN [self |-> r.self, exc |-> r.exc, os |-> p.os]
             ELSE [self |-> r.self, exc |-> "", os |-> Append(p.os, r.o)]

PlainSeq(vs) == [i \in 1..Len(vs) |-> Plain(vs[i])]

\* the last call was one batched forward(x) over a T-step sequence
BatchedCall == status = "live" /\ last.op = "forward_multi"

\* C3: one batched (multi-time-step) call returns an output sequence of
\* length T that equals, step by step, the outputs of T successive
\* single-step calls on the same inputs from the same retained state.
C3_BatchedEqualsSingleSteps ==
    BatchedCall =>
        /\ last.exc = ""
        /\ Len(last.os) = Len(last.xs)
        /\ PlainSeq(last.os) =
               PlainSeq(SingleSteps(last.pre, last.xs, Len(last.xs)).os)

\* C4: after a batched call over a T-step sequence the retained potential is
\* the post-reset potential of step T, the state T single-step calls leave.
C4_BatchedLeavesFinalPotential ==
    (BatchedCall /\ last.exc = "") =>
        Plain(soma.u) = Plain(SingleSteps(last.pre, last.xs, Len(last.xs)).self.u)

\* C5: reset() returns the soma to its construction state (potential =
\* u_rest as the scalar placeholder; Izhikevich u = 0 and w = 0) whatever was
\* called before, and from then on its state and its outputs equal those of a
\* freshly constructed soma with the same parameters given the same inputs.
C5_ResetIsFresh ==
    (status = "live" /\ soma.cls \in UOHClasses) =>
        /\ last.op = "reset" =>
              /\ soma = ctor.made
              /\ soma.u = Float(IF soma.cls = "Izhikevich" THEN Zero ELSE soma.u_rest)
              /\ soma.cls = "Izhikevich" => soma.w = Float(Zero)
        /\ resetSeen =>
              /\ Plain(soma.u) = Plain(fresh.u)
              /\ Plain(soma.w) = Plain(fresh.w)
              /\ last.op = "forward" => PlainSeq(last.os) = PlainSeq(last.fresh_os)

\* after forward calls and a reset(), a forward call with zero input returned
C5_Witness ==
    /\ ForwardReturned /\ soma.cls \in Spiking /\ resetSeen /\ steps = 1
    /\ last.xs[1].val = <<Zero>>
    /\ soma.u_rest # Zero

\* C6: detach() leaves the values of the retained potential (and of w)
\* unchanged and clears their autograd history, so what is retained afterwards
\* reaches no step up to the detach point; on the scalar placeholder it
\* changes nothing.
C6_DetachKeepsValue ==
    (status = "live" /\ soma.cls \in UOHClasses) =>
        /\ last.op = "detach" =>
              /\ Plain(soma.u) = Plain(last.pre.u)
              /\ Plain(soma.w) = Plain(last.pre.w)
              /\ soma.u.hist = {} /\ soma.w.hist = {}
              /\ ~IsTensor(last.pre.u) => soma = last.pre
        /\ \A k \in soma.u.hist \cup soma.w.hist : k > detachAt

\* a forward call after a detach() that followed a forward call: the retained
\* potential reaches only the step after the detach point
C6_Witness ==
    /\ ForwardReturned /\ soma.cls \in Spiking
    /\ detachAt = 1 /\ steps = 2
    /\ soma.u.hist = {2}
    /\ last.pre.u.val # <<soma.u_rest>>

\* C7: the potential a forward call combines with its input is the potential
\* retained by the call before it, and between forward calls only reset()
\* changes its value: detach() does not.
C7_StatePersists ==
    [][(status = "live" /\ soma.cls \in UOHClasses) =>
          /\ (last'.op = "forward" /\ last'.exc = "") =>
                 last'.u = calc_potential(soma, soma.u, last'.xs[1])
          /\ last'.op \notin {"forward", "reset"} => Plain(soma'.u) = Plain(soma.u)
      ]_vars

\* a second forward call, with no reset() before it, that started from a
\* potential other than the resting value
C7_Witness ==
    /\ ForwardReturned /\ soma.cls \in Spiking /\ steps = 2 /\ ~resetSeen
    /\ IsTensor(last.pre.u)
    /\ \E i \in 1..Shape(last.pre.u) : last.pre.u.val[i] # soma.u_rest
    /\ last.u = calc_potential(last.pre, last.pre.u, last.xs[1])

\* C8: constructing LIF, QIF, EIF or UOHSkeleton with tau_m = 0 fails at
\* construction, before any forward call, so no live soma has tau_m = 0; IF
\* and Izhikevich hold tau_m = 1.
C8_TauNotZero ==
    /\ (status = "live" /\ soma.cls \in UOHClasses) =>
           /\ soma.tau_m # Zero
           /\ soma.cls \in {"IF", "Izhikevich"} => soma.tau_m = One
    /\ (status # "none" /\ ctor.cls \in UOHClasses /\ ctor.tau_m = Zero) =>
           status = "failed" /\ ctor.exc # "" /\ last = NoLast

\* LIF(tau_m = 0) with a valid spiking function raised at construction
C8_Witness ==
    /\ status = "failed" /\ ctor.cls = "LIF" /\ ctor.tau_m = Zero
    /\ ctor.sf = "Function" /\ ctor.exc = "AssertionError"

\* C9: constructing a UOH or ROR soma with a spiking_function that is not
\* callable, or whose call does not yield a torch.autograd.Function, fails
\* at construction, not at the first forward call.
C9_SpikingFunctionChecked ==
    (status # "none" /\ ctor.cls \in UOHClasses \cup {"RORSkeleton"}) =>
        /\ ctor.sf # "Function" => (status = "failed" /\ ctor.exc # "" /\ last = NoLast)
        /\ status = "live" => ctor.sf = "Function"

\* a callable that returns no torch.autograd.Function was refused
C9_Witness ==
    /\ status = "failed" /\ ctor.cls \in UOHClasses
    /\ ctor.sf = "callable_other" /\ ctor.exc = "AssertionError"

\* C10: once the shape of the retained potential is established, a forward
\* call whose input shape differs from it fails, and leaves the retained
\* potential unchanged.
C10_ShapeMismatchFails ==
    (status = "live" /\ soma.cls \in Spiking /\ last.op = "forward"
        /\ IsTensor(last.pre.u) /\ Shape(last.xs[1]) # Shape(last.pre.u)) =>
        /\ last.exc # ""
        /\ soma.u = last.pre.u

\* C11: when matterhorn_cpp_extensions (fp_lif / bp_lif) is not installed,
\* soma_cpp reports NotImplementedError ("Please install Matterhorn C++
\* Extensions."), no SomaCPP / LIF object of it ever exists and no call returns
\* a spike output: no other algorithm stands in for the fused kernel.
C11_MissingExtensionReported ==
    extension = "missing" =>
        /\ status = "failed"
        /\ ctor.cls = "soma_cpp" /\ ctor.exc = "NotImplementedError"
        /\ soma = NewObject("")
        /\ last = NoLast

\* the import was attempted without the extension, and raised
C11_Witness ==
    extension = "missing" /\ status = "failed" /\ ctor.exc = "NotImplementedError"

\* the arithmetic of the variant table on one neuron's numbers
TableResponse(u, x, tau) == RAdd(u, RDiv(x, tau))
TableHardReset(h, o, rest) == RAdd(RMul(h, RSub(One, o)), RMul(rest, o))
TableLeak(u, tau, rest) ==
    RAdd(RMul(RSub(One, RDiv(One, tau)), u), RDiv(rest, tau))

\* C12: for LIF, one forward call from retained potential u with input x
\* produces the pre-firing potential u' = u + x/tau_m and retains
\* [(1 - 1/tau_m)*u' + u_rest/tau_m]*(1 - o) + u_rest*o, o the spike of that
\* step, for every neuron.
C12_LIFStep ==
    (ForwardReturned /\ soma.cls = "LIF") =>
        /\ Shape(soma.u) = Shape(last.u)
        /\ \A i \in 1..Shape(last.u) :
               /\ last.u.val[i] =
                      TableResponse(At(last.pre.u, i), At(last.xs[1], i), soma.tau_m)
               /\ soma.u.val[i] =
                      TableHardReset(TableLeak(last.u.val[i], soma.tau_m, soma.u_rest),
                                     last.os[1].val[i], soma.u_rest)

\* a second step of LIF with tau_m = 2 and a resting value other than 0, in
\* which one neuron fired and another, with a potential off rest, did not
C12_Witness ==
    /\ ForwardReturned /\ soma.cls = "LIF" /\ steps = 2
    /\ soma.tau_m = Q(2, 1) /\ soma.u_rest # Zero
    /\ \E i, j \in 1..Shape(last.u) :
           /\ last.os[1].val[i] = One
           /\ last.os[1].val[j] = Zero /\ last.u.val[j] # soma.u_rest

\* the loop runs LIF(tau_m = 2, u_threshold = 1, u_rest = 0) on the constant
\* input 0.5 (a single neuron), from the state construction leaves (u = 0)
C13_Scenario ==
    /\ status = "live" /\ soma.cls = "LIF"
    /\ soma.tau_m = Q(2, 1) /\ soma.u_threshold = One /\ soma.u_rest = Zero
    /\ steps > 0 /\ last.xs[1].val = <<Q(1, 2)>>

\* C13: LIF with tau_m = 2, u_threshold = 1, u_rest = 0, starting from u = 0
\* and fed [0.5, 0.5, 0.5, 0.5], has pre-firing potential 0.25 at step 1,
\* 0.375 at step 2, 0.4375 at step 3 and 0.46875 at step 4, and emits no spike
\* in any of the four steps.
C13_LIFTrace ==
    C13_Scenario =>
        /\ last.exc = ""
        /\ Len(last.os) = steps
        /\ \A k \in 1..steps : last.os[k].val = <<Zero>>
        /\ steps = 1 => last.u.val = <<Q(1, 4)>>
        /\ steps = 2 => last.u.val = <<Q(3, 8)>>
        /\ steps = 3 => last.u.val = <<Q(7, 16)>>
        /\ steps = 4 => last.u.val = <<Q(15, 32)>>

\* the fourth step of the scenario was taken
C13_Witness == C13_Scenario /\ steps = 4 /\ Len(last.os) = 4

\* C14: for IF, one forward call from retained potential u with input x
\* produces the pre-firing potential u' = u + x, the input undivided, and
\* retains u'*(1 - o) + u_rest*o, o the spike of that step, for every neuron.
C14_IFStep ==
    (ForwardReturned /\ soma.cls = "IF") =>
        /\ Shape(soma.u) = Shape(last.u)
        /\ \A i \in 1..Shape(last.u) :
               /\ last.u.val[i] = RAdd(At(last.pre.u, i), At(last.xs[1], i))
               /\ soma.u.val[i] =
                      TableHardReset(last.u.val[i], last.os[1].val[i], soma.u_rest)

\* a second step of IF in which a neuron that got input fired and was reset to
\* a resting value other than 0, and another kept a potential off rest
C14_Witness ==
    /\ ForwardReturned /\ soma.cls = "IF" /\ steps = 2 /\ soma.u_rest # Zero
    /\ \E i, j \in 1..Shape(last.u) :
           /\ last.os[1].val[i] = One /\ At(last.xs[1], i) # Zero
           /\ soma.u.val[i] = soma.u_rest
           /\ last.os[1].val[j] = Zero /\ soma.u.val[j] # soma.u_rest

\* neuron i got a positive input in the loop, and did not fire in any call of
\* the loop so far
NotFiredYet(i) ==
    /\ RGe(At(last.xs[1], i), Zero) /\ At(last.xs[1], i) # Zero
    /\ \A k \in 1..Len(last.os) : last.os[k].val[i] = Zero

\* C15: for IF fed the same positive input at every step, starting from the
\* resting value, the pre-firing potential of a neuron does not decrease from
\* one step to the next, up to and including the step of its first spike.
C15_IFMonotoneUntilSpike ==
    [][(status = "live" /\ soma.cls = "IF" /\ steps > 0 /\ last.exc = ""
           /\ last'.op = "forward" /\ last'.exc = "" /\ steps' = steps + 1) =>
          /\ Shape(last'.u) = Shape(last.u)
          /\ \A i \in 1..Shape(last.u) :
                 NotFiredYet(i) => RGe(last'.u.val[i], last.u.val[i])
      ]_vars

\* IF, fed 1/4 at every step from rest, fired for the first time at the
\* fourth step, with a pre-firing potential above that of the third
C15_Witness ==
    /\ status = "live" /\ soma.cls = "IF" /\ steps = 4 /\ last.exc = ""
    /\ last.xs[1].val = <<Q(1, 4)>>
    /\ last.os[1].val = <<One>>
    /\ \A k \in 2..4 : last.os[k].val = <<Zero>>
    /\ last.u.val[1] # last.pre.u.val[1] /\ RGe(last.u.val[1], last.pre.u.val[1])

\* C16: for IF, LIF, QIF and EIF, whenever a neuron spikes at a step, the
\* potential retained for the next step equals u_rest exactly, however far
\* the pre-firing potential exceeded the threshold and whatever the model's
\* leak / quadratic / exponential term is.
C16_SpikeResetsToRest ==
    (ForwardReturned /\ soma.cls \in {"IF", "LIF", "QIF", "EIF"}) =>
        \A i \in 1..Shape(last.u) :
            last.os[1].val[i] = One => soma.u.val[i] = soma.u_rest

\* the last call was a forward call of any kind, on a soma of either module
AnyForward ==
    status = "live" /\ last.op \in {"forward", "forward_single", "forward_multi"}

\* C17: if u_threshold is +infinity, no forward call ever outputs a spike, for
\* any input magnitude, any number of steps and any interleaving of reset()
\* and detach() calls, in every variant.
C17_InfiniteThresholdNeverSpikes ==
    (AnyForward /\ soma.u_threshold = PInf) =>
        \A k \in 1..Len(last.os) : \A i \in 1..Shape(last.os[k]) :
            last.os[k].val[i] = Zero

\* with u_threshold = +inf a forward call returned no spike although its
\* pre-firing potential was itself +inf (EIF after a strong input)
C17_Witness ==
    /\ ForwardReturned /\ soma.u_threshold = PInf
    /\ last.u.val = <<PInf>> /\ last.os[1].val = <<Zero>>

TableQuadratic(u, tau, rest, a0, uc) ==
    RSub(u, RMul(RMul(RDiv(a0, tau), RSub(u, rest)), RSub(u, uc)))

\* C18: for QIF, one forward call from retained potential u with input x
\* produces the pre-firing potential u' = u + x/tau_m and retains
\* [u' - (a_0/tau_m)*(u' - u_rest)*(u' - u_c)]*(1 - o) + u_rest*o, o the spike
\* of that step, for every neuron.
C18_QIFStep ==
    (ForwardReturned /\ soma.cls = "QIF") =>
        /\ Shape(soma.u) = Shape(last.u)
        /\ \A i \in 1..Shape(last.u) :
               /\ last.u.val[i] =
                      TableResponse(At(last.pre.u, i), At(last.xs[1], i), soma.tau_m)
               /\ soma.u.val[i] =
                      TableHardReset(
                          TableQuadratic(last.u.val[i], soma.tau_m, soma.u_rest,
                                         soma.a_0, soma.u_c),
                          last.os[1].val[i], soma.u_rest)

\* a second step of QIF (tau_m = 2, u_rest other than 0) in which a neuron
\* stayed below the threshold with a potential off u_rest and off u_c, so that
\* the quadratic term changed what it retained, and another neuron fired
C18_Witness ==
    /\ ForwardReturned /\ soma.cls = "QIF" /\ steps = 2
    /\ soma.tau_m = Q(2, 1) /\ soma.u_rest # Zero
    /\ \E i, j \in 1..Shape(last.u) :
           /\ last.os[1].val[i] = One
           /\ last.os[1].val[j] = Zero
           /\ soma.u.val[j] # last.u.val[j]

\* C19: for Izhikevich, one forward call from retained (u, w) with input x
\* produces the pre-firing potential u' = u + x, retains the potential
\* 0.04*u'^2 + 6*u' + 140 - w computed with the w held before this step, and
\* then updates w to a*b*u' - (a - 1)*w, for every neuron.
C19_IzhikevichStep ==
    (ForwardReturned /\ soma.cls = "Izhikevich") =>
        /\ Shape(soma.u) = Shape(last.u) /\ Shape(soma.w) = Shape(last.u)
        /\ \A i \in 1..Shape(last.u) :
               /\ last.u.val[i] = RAdd(At(last.pre.u, i), At(last.xs[1], i))
               /\ soma.u.val[i] =
                      RSub(RAdd(RAdd(RMul(Q(4, 100), RMul(last.u.val[i], last.u.val[i])),
                                     RMul(Q(6, 1), last.u.val[i])),
                                Q(140, 1)),
                           At(last.pre.w, i))
               /\ soma.w.val[i] =
                      RSub(RMul(RMul(soma.a, soma.b), last.u.val[i]),
                           RMul(RSub(soma.a, One), At(last.pre.w, i)))

\* a second step of Izhikevich with a = 2, entered with a w other than 0
C19_Witness ==
    /\ ForwardReturned /\ soma.cls = "Izhikevich" /\ steps = 2
    /\ soma.a = Q(2, 1)
    /\ IsTensor(last.pre.w)
    /\ \E i \in 1..Shape(last.u) :
           At(last.pre.w, i) # Zero /\ last.u.val[i] # Zero

\* the constructor was called with the default arguments of its class
DefaultArgs ==
    /\ ctor.sf = "Function" /\ ctor.u_threshold = One
    /\ CASE ctor.cls = "UOHSkeleton" -> ctor.tau_m = One /\ ctor.u_rest = Zero
         [] ctor.cls \in {"LIF", "QIF", "EIF"} ->
                ctor.tau_m = Q(2, 1) /\ ctor.u_rest = Zero
         [] ctor.cls = "IF" -> ctor.u_rest = Zero
         [] ctor.cls = "Izhikevich" ->
                status = "live" => (ctor.made.a = One /\ ctor.made.b = One)
         [] ctor.cls = "RORSkeleton" -> TRUE
         [] OTHER -> FALSE

\* C20: every soma skeleton, UOH-based and ROR-based alike, can be
\* constructed with its default arguments, and immediately after construction,
\* before any input is seen, holds a potential equal to its resting value.
C20_DefaultConstructionAtRest ==
    (status # "none" /\ DefaultArgs) =>
        /\ status = "live" /\ ctor.exc = ""
        /\ ctor.made.u = Float(ctor.made.u_rest)

\* C21: every construction-time option, the model-specific constants
\* included, is validated at construction, so that no forward call on a
\* constructed soma meets a configuration value it cannot compute with: EIF
\* with delta_t = 0, by which its reset phase divides, is rejected at
\* construction.
C21_OptionsValidated ==
    /\ (status = "live" /\ soma.cls = "EIF") => soma.delta_t # Zero
    /\ (status # "none" /\ ctor.cls = "EIF" /\ ctor.made.delta_t = Zero) =>
           status = "failed"

\* C22: every successfully constructed soma has tau_m > 0: a negative tau_m
\* is rejected at construction like a zero one.
C22_TauPositive ==
    /\ (status = "live" /\ soma.cls \in UOHClasses) =>
           RGe(soma.tau_m, Zero) /\ soma.tau_m # Zero
    /\ (status # "none" /\ ctor.cls \in UOHClasses /\ ctor.tau_m # NoNum
           /\ ~RGe(ctor.tau_m, Zero)) => status = "failed"

\* |p - q| of two finite numbers
Dist(p, q) == IF RGe(p, q) THEN RSub(p, q) ELSE RSub(q, p)

\* the last call was a forward call with zero input that returned
ZeroInputStep ==
    /\ ForwardReturned
    /\ \A i \in 1..Shape(last.xs[1]) : last.xs[1].val[i] = Zero

\* C24: for an LIF soma with any tau_m accepted by construction, under zero
\* input the retained potential decays toward the resting value,
\* |u_next - u_rest| <= |u - u_rest| at every step from every reachable state,
\* and u_rest is a fixed point; for IF under zero input the retained potential
\* stays unchanged.
C24_ZeroInputDecay ==
    (ZeroInputStep /\ soma.cls \in {"IF", "LIF"}) =>
        \A i \in 1..Shape(soma.u) :
            /\ soma.cls = "LIF" =>
                   RGe(Dist(At(last.pre.u, i), soma.u_rest),
                       Dist(soma.u.val[i], soma.u_rest))
            /\ At(last.pre.u, i) = soma.u_rest => soma.u.val[i] = soma.u_rest
            /\ soma.cls = "IF" => soma.u.val[i] = At(last.pre.u, i)

(***************************************************************************)
(* The differential equations the docstrings of the variants give, on one  *)
(* neuron's numbers: du/dt at potential u (and w) under the input x = RI   *)
(***************************************************************************)
LIF_dudt(self, u, x) ==
    RDiv(RAdd(RNeg(RSub(u, self.u_rest)), x), self.tau_m)

QIF_dudt(self, u, x) ==
    RDiv(RAdd(RMul(RMul(self.a_0, RSub(u, self.u_rest)), RSub(u, self.u_c)), x),
         self.tau_m)

EIF_dudt(self, u, x) ==
    RDiv(RAdd(RAdd(RNeg(RSub(u, self.u_rest)),
                   RMul(self.delta_t, RExp(RDiv(RSub(u, self.u_t), self.delta_t)))),
              x),
         self.tau_m)

Izhikevich_dudt(self, u, w, x) ==
    RAdd(RSub(RAdd(RAdd(RMul(Q(4, 100), RMul(u, u)), RMul(Q(5, 1), u)), Q(140, 1)), w),
         x)

Izhikevich_dwdt(self, u, w) == RMul(self.a, RSub(RMul(self.b, u), w))

dudt(self, u, w, x) ==
    CASE self.cls = "LIF" -> LIF_dudt(self, u, x)
      [] self.cls = "QIF" -> QIF_dudt(self, u, x)
      [] self.cls = "EIF" -> EIF_dudt(self, u, x)
      [] self.cls = "Izhikevich" -> Izhikevich_dudt(self, u, w, x)

\* the inputs the next step is tried with
EulerInputs == {Zero, Q(1, 2)}

\* C23: for LIF, QIF, EIF and Izhikevich, the no-spike carry-over combined
\* with the response to the next input is exactly the Euler step
\* u + du/dt (dt = 1) of the differential equation documented for the model
\* (for Izhikevich also w + dw/dt); for QIF the quadratic term enters with
\* the sign it has in tau*du/dt = a_0*(u - u_rest)*(u - u_c) + RI.
C23_EulerStep ==
    (ForwardReturned /\ soma.cls \in {"LIF", "QIF", "EIF", "Izhikevich"}) =>
        \A i \in 1..Shape(last.u) :
            (IsFin(last.u.val[i]) /\ (last.os[1].val[i] = Zero \/ soma.cls = "Izhikevich")) =>
                /\ \A x \in EulerInputs :
                       calc_potential(soma, soma.u, Input(<<x>>, 0)).val[i] =
                           RAdd(last.u.val[i],
                                dudt(soma, last.u.val[i],
                                     IF soma.cls = "Izhikevich" THEN At(last.pre.w, i)
                                     ELSE Zero, x))
                /\ soma.cls = "Izhikevich" =>
                       soma.w.val[i] =
                           RAdd(At(last.pre.w, i),
                                Izhikevich_dwdt(soma, last.u.val[i], At(last.pre.w, i)))

\* C25: detach() takes effect only at the end of a full time-sequence pass
\* (the forward calls between two reset() calls): in no reachable execution is
\* the autograd history of the retained state severed between two steps of
\* the same sequence, i.e. no forward step of a sequence follows a detach()
\* that followed an earlier step of it.
C25_NoDetachMidSequence ==
    (ForwardReturned /\ soma.cls \in Spiking) =>
        ~(0 < detachAt /\ detachAt < steps)

\* C26: the state is a scalar placeholder at construction and after reset();
\* the first forward call promotes it to a tensor of exactly the input's
\* shape; from then on, at every step, the spike output and the retained
\* potential both have the shape of that step's input.
C26_ShapesFollowInput ==
    /\ (status = "live" /\ soma.cls \in UOHClasses /\ steps = 0) =>
           soma.u.kind = "float"
    /\ (ForwardReturned /\ soma.cls \in Spiking) =>
           /\ IsTensor(soma.u) /\ IsTensor(last.os[1])
           /\ Shape(last.os[1]) = Shape(last.xs[1])
           /\ Shape(soma.u) = Shape(last.xs[1])

Flipped(o) == TSub(Float(One), o)

\* C28: for Izhikevich, the potential and the auxiliary state w carried into
\* the next step do not depend on the spike output: from the same pre-firing
\* potential and w, the retained (u, w) are what they would be had every
\* neuron's spike been the opposite, so a spike does not put the potential
\* back to the resting value.
C28_IzhikevichIgnoresSpike ==
    (ForwardReturned /\ soma.cls = "Izhikevich") =>
        LET other == Izhikevich_calc_history(last.pre, last.u, Flipped(last.os[1]))
        IN  /\ IsTensor(other.h) /\ IsTensor(other.w)
            /\ other.h.val = soma.u.val
            /\ other.w.val = soma.w.val

\* an Izhikevich neuron fired and its retained potential is not the resting one
C28_Witness ==
    /\ ForwardReturned /\ soma.cls = "Izhikevich"
    /\ \E i \in 1..Shape(last.u) :
           /\ last.os[1].val[i] = One
           /\ soma.u.val[i] # soma.u_rest
    /\ \E i \in 1..Shape(last.u) : last.os[1].val[i] = Zero

\* C29: constructing a SomaCPP (or its LIF subclass) with a surrogate whose
\* class name is not in the supported list fails at construction; whenever
\* construction succeeds, spiking_function_prototype is the index of that
\* surrogate in the supported list and the soma is in multi-time-step mode.
C29_SurrogateSupported ==
    (ctor.cls \in CPPClasses /\ status \in {"live", "failed"}) =>
        /\ (\A i \in 1..Len(supported_surrogate_gradients) :
                supported_surrogate_gradients[i] # ctor.sf) =>
               (status = "failed" /\ ctor.exc # "")
        /\ status = "live" =>
               /\ ctor.made.spiking_function_prototype \in
                      0..(Len(supported_surrogate_gradients) - 1)
               /\ supported_surrogate_gradients[
                      ctor.made.spiking_function_prototype + 1] = ctor.sf
               /\ ctor.made.multi_time_step = TRUE
               /\ soma.spiking_function_prototype =
                      ctor.made.spiking_function_prototype
               /\ soma.multi_time_step = TRUE

\* a constructor call that fails on the surrogate alone: every other argument
\* is one the base class accepts
C29_Witness ==
    /\ ctor.cls \in CPPClasses /\ status = "failed"
    /\ ctor.sf = "Gaussian" /\ ctor.tau_m = Q(2, 1)
    /\ ctor.exc = "AssertionError"

\* dataset[index] returned a sample
ItemReturned == dataset.cls = "EventDataset" /\ item.index >= 0 /\ item.exc = ""

\* the stored row (data_idx, label) that index names
Row(index) == dataset.data_target[index + 1]

\* C30: EventDataset.__getitem__(index) returns the pair (data, target) of the
\* indexed sample in which data has been passed through transform when one is
\* given and the label through target_transform when one is given: the
\* returned target is a function of the sample's stored label only, never of
\* its event data.
C30_TargetFromLabel ==
    ItemReturned =>
        LET stored == EventFiles[Row(item.index)[1] + 1]
            tensor == Tensor([i \in 1..Len(stored) |-> Q(stored[i], 1)], {})
            label == Float(Q(Row(item.index)[2], 1))
        IN  /\ item.data = IF dataset.transform = NoneT THEN tensor
                           ELSE Call(dataset.transform, tensor)
            /\ item.target = IF dataset.target_transform = NoneT THEN label
                             ELSE Call(dataset.target_transform, label)

\* event_data_2_tensor was applied to an array of which the clipped filter
\* keeps at least one event
Rendered == conv.op # "" /\ clip(dataset, conv.data) # <<>>

\* the timestamps the clipped filter keeps
KeptTimes == {clip(dataset, conv.data)[i][1] : i \in 1..Len(clip(dataset, conv.data))}

\* C31: in the event-to-tensor conversions (tx, tpx, tyx, tpyx), for a
\* non-empty set of events with non-negative integer timestamps, every
\* rescaled time index floor(t * t_size / max(max(t) + 1, original_size[0]))
\* lies in 0 .. t_size - 1, so the conversion returns and every event is
\* written inside the time dimension of the result tensor.
C31_TimeIndexInRange ==
    Rendered =>
        /\ conv.exc = ""
        /\ conv.shape[1] = dataset.t_size
        /\ \A e \in conv.idx : e[1] \in 0..(dataset.t_size - 1)
        /\ \A w \in conv.res : w[1] \in 0..(conv.shape[1] - 1)
        /\ \A t \in KeptTimes :
               \E e \in conv.idx :
                   /\ e \in conv.res
                   /\ \E m \in KeptTimes :
                          /\ \A k \in KeptTimes : k <= m
                          /\ LET d == IF m + 1 >= dataset.original_size[1]
                                      THEN m + 1 ELSE dataset.original_size[1]
                             IN  /\ e[1] * d <= t * dataset.t_size
                                 /\ t * dataset.t_size < (e[1] + 1) * d

\* the latest event of a recording that fills the last time step: two events
\* at different times, the later one rendered at index t_size - 1 > 0
C31_Witness ==
    /\ Rendered /\ conv.exc = ""
    /\ dataset.t_size > 1
    /\ Cardinality(KeptTimes) = 2
    /\ \E e \in conv.res : e[1] = dataset.t_size - 1
    /\ \E e \in conv.res : e[1] < dataset.t_size - 1

====
